---- MODULE Spec2Model ----
(***************************************************************************)
(* Verification model of the CHAN-2024 tweet pipeline: the country/category *)
(* classification cascade, TextPreprocessor.categorize_country, the hashtag *)
(* extractor that feeds it, the sentiment labelling, the tweets store and   *)
(* the two consumer loops that process, store and route the tweets, the     *)
(* fetch that feeds them, the shutdown of the real-time mode and the        *)
(* country rankings of the report.                                          *)
(*                                                                         *)
(* Strings are TLA+ strings.  str.lower() is ToLower, computed character   *)
(* by character; Python's `term in all_content` is a search of the content *)
(* for the term at every position (TermsIn).  Python dicts are modelled by *)
(* their keys in insertion order plus their values, so that                *)
(* max(d, key=d.get), the first maximal key in insertion order, is         *)
(* computed as CPython computes it.                                        *)
(*                                                                         *)
(* src/utils/text_preprocessing.py lines 89-116 hold prose pasted into the *)
(* body of categorize_country; the model follows the statements around it  *)
(* (lines 44-87 and 117-133), which form the cascade.                      *)
(***************************************************************************)
EXTENDS Integers, Sequences, FiniteSets, TLC

VARIABLES
    pc, text, hashtags, label, evidence, returned,  \* categorize_country calls
    sentiment,                                      \* analyze_sentiment calls
    loop, consumed, outcome, tweets, topics,        \* the consumer loops
    main_thread, consumer,                          \* the real-time shutdown
    fetch,                                          \* fetch_and_produce_tweets calls
    rankings                                        \* get_country_rankings calls

classifier_vars == <<pc, text, hashtags, label, evidence, returned>>

pipeline_vars == <<loop, consumed, outcome, tweets, topics>>

shutdown_vars == <<main_thread, consumer>>

report_vars == <<fetch, rankings>>

vars == <<classifier_vars, sentiment, pipeline_vars, shutdown_vars, report_vars>>

(***************************************************************************)
(* Bounds of the explored input space.                                     *)
(***************************************************************************)
MaxFragments == 1
MaxTags == 2

(***************************************************************************)
(* Static tables, src/config.py.  Sequences keep the source order.         *)
(***************************************************************************)
Countries == <<"Kenya", "Uganda", "Tanzania">>

COUNTRY_HASHTAGS ==
    [Kenya    |-> <<"#chan2024", "#totalenergieschan2024", "#harambeestars">>,
     Uganda   |-> <<"#totalenergieschan2024", "#chan2024", "#ugandacranes">>,
     Tanzania |-> <<"#chan2024", "#totalenergieschan2024", "#taifastars">>]

SHARED_HASHTAGS ==
    <<"#pamoja", "#chan2024", "#totalenergieschan2024", "#eastafrica", "#eac">>

COUNTRY_KEYWORDS ==
    [Kenya    |-> <<"kenya", "harambee", "stars", "nairobi", "teamkenya", "ke",
                    "harambeefc", "harambeestars">>,
     Uganda   |-> <<"uganda", "cranes", "kampala", "teamuganda", "ug",
                    "thecranes", "ugandacranes">>,
     Tanzania |-> <<"tanzania", "taifa", "stars", "dar", "teamtanzania", "tz",
                    "taifastars", "simba">>]

VENUE_KEYWORDS ==
    [Kenya    |-> <<"nairobi", "kasarani", "nyayo", "moi">>,
     Uganda   |-> <<"kampala", "nakivubo", "mandela", "namboole">>,
     Tanzania |-> <<"dar es salaam", "mkapa", "uhuru", "azam">>]

chan_indicators == <<"chan", "african nations championship", "caf", "totalenergies">>

CategoryVocabulary ==
    {"Kenya", "Uganda", "Tanzania", "Pamoja", "CHAN-General", "General"}

VenueWeight == 2

(***************************************************************************)
(* Python string and list primitives.                                      *)
(***************************************************************************)
Range(s) == {s[i] : i \in DOMAIN s}

\* `x in lst` for a list
Member(x, lst) == \E i \in DOMAIN lst : lst[i] = x

UpperCase == "ABCDEFGHIJKLMNOPQRSTUVWXYZ"
LowerCase == "abcdefghijklmnopqrstuvwxyz"
Digits == "0123456789"

CharAt(s, i) == SubSeq(s, i, i)

Chars(s) == {CharAt(s, k) : k \in 1..Len(s)}

UpperChars == Chars(UpperCase)
WordChars == Chars(LowerCase) \cup Chars(Digits) \cup {"_"}

LowerOf ==
    [c \in UpperChars |->
        CharAt(LowerCase, CHOOSE k \in 1..Len(UpperCase) : CharAt(UpperCase, k) = c)]

LowerChar(c) == IF c \in UpperChars THEN LowerOf[c] ELSE c

\* str.lower(): every character lowered, the two halves of s in turn
RECURSIVE ToLower(_)
ToLower(s) ==
    IF Len(s) = 0 THEN ""
    ELSE IF Len(s) = 1 THEN LowerChar(s)
    ELSE ToLower(SubSeq(s, 1, Len(s) \div 2))
         \o ToLower(SubSeq(s, Len(s) \div 2 + 1, Len(s)))

\* mutation: the hashtags are taken as given
as_given(lst) == lst

LowerAll(lst) == [i \in DOMAIN lst |-> ToLower(lst[i])]

RECURSIVE Join(_, _)
Join(lst, sep) ==
    IF Len(lst) = 0 THEN ""
    ELSE IF Len(lst) = 1 THEN lst[1]
    ELSE lst[1] \o sep \o Join(Tail(lst), sep)

\* regex \w on lowercased text
IsWordChar(c) == c \in WordChars

\* length of the maximal run of \w characters of s starting at position i
RECURSIVE WordRun(_, _)
WordRun(s, i) ==
    IF i <= Len(s) /\ IsWordChar(CharAt(s, i)) THEN 1 + WordRun(s, i + 1) ELSE 0

\* re.findall(r'#\w+', s) scanning from position i: the scan moves to the
\* next '#'; one followed by word characters is a match and the scan resumes
\* after the match, any other is passed over
RECURSIVE FindAllTags(_, _)
FindAllTags(s, i) ==
    LET hashes == {k \in i..Len(s) : CharAt(s, k) = "#"}
    IN  IF hashes = {} THEN <<>>
        ELSE LET j == CHOOSE k \in hashes : \A m \in hashes : k <= m
                 n == WordRun(s, j + 1)
             IN  IF n > 0
                 THEN <<SubSeq(s, j, j + n)>> \o FindAllTags(s, j + n + 1)
                 ELSE FindAllTags(s, j + 1)

extract_hashtags(t) == FindAllTags(ToLower(t), 1)

(***************************************************************************)
(* The cascade, src/utils/text_preprocessing.py categorize_country.        *)
(***************************************************************************)

\* the countries of the tables, in dict iteration order, that pass a test
RECURSIVE KeysFrom(_, _)
KeysFrom(i, passing) ==
    IF i > Len(Countries) THEN <<>>
    ELSE (IF Countries[i] \in passing THEN <<Countries[i]>> ELSE <<>>)
         \o KeysFrom(i + 1, passing)

\* mutation: of the keys with the maximal value the last is taken
last_max_key(keys, score) ==
    keys[CHOOSE i \in DOMAIN keys :
            /\ \A j \in DOMAIN keys : score[keys[j]] <= score[keys[i]]
            /\ \A j \in (i + 1)..Len(keys) : score[keys[j]] < score[keys[i]]]

\* mutation: the first key is taken, whatever the values
first_key(keys, score) == keys[1]

\* max(d, key=d.get) for a non-empty dict with the given keys in insertion
\* order: the first key whose value is maximal
MaxKey(keys, score) ==
    keys[CHOOSE i \in DOMAIN keys :
            /\ \A j \in DOMAIN keys : score[keys[j]] <= score[keys[i]]
            /\ \A j \in 1..(i - 1) : score[keys[j]] < score[keys[i]]]

\* line 56
hashtag_matches(country, hashtags_lower) ==
    Cardinality({i \in DOMAIN COUNTRY_HASHTAGS[country] :
                    Member(COUNTRY_HASHTAGS[country][i], hashtags_lower)})

\* line 63
shared_count(hashtags_lower) ==
    Cardinality({i \in DOMAIN hashtags_lower :
                    Member(hashtags_lower[i], SHARED_HASHTAGS)})

\* every term of the keyword, venue, indicator and shared-hashtag tables
TableTerms ==
    UNION {Range(COUNTRY_KEYWORDS[c]) \cup Range(VENUE_KEYWORDS[c]) : c \in Range(Countries)}
    \cup Range(chan_indicators) \cup Range(SHARED_HASHTAGS)

\* the table terms by their first character
TermsByFirst ==
    [c \in {CharAt(p, 1) : p \in TableTerms} |-> {p \in TableTerms : CharAt(p, 1) = c}]

\* the table terms that start at position i of s
TermsAt(s, i) ==
    IF CharAt(s, i) \in DOMAIN TermsByFirst
    THEN {p \in TermsByFirst[CharAt(s, i)] :
             i + Len(p) - 1 <= Len(s) /\ SubSeq(s, i, i + Len(p) - 1) = p}
    ELSE {}

\* the table terms that are substrings of the content: `term in all_content`
\* (lines 71, 85, 118, 127, 128) is membership in TermsIn(all_content)
TermsIn(all_content) == UNION {TermsAt(all_content, i) : i \in 1..Len(all_content)}

\* lines 71 and 85
keyword_score(country, found) ==
    Cardinality({i \in DOMAIN COUNTRY_KEYWORDS[country] :
                    COUNTRY_KEYWORDS[country][i] \in found})

\* the venue terms of a country found in the content
venue_hits(country, found) ==
    Cardinality({i \in DOMAIN VENUE_KEYWORDS[country] :
                    VENUE_KEYWORDS[country][i] \in found})

\* mutation: a venue term weighs no more than a keyword
venue_score_unweighted(country, found) == venue_hits(country, found)

\* line 118
venue_score(country, found) == VenueWeight * venue_hits(country, found)

\* line 127
has_chan_content(found) == \E i \in DOMAIN chan_indicators : chan_indicators[i] \in found

\* line 128
has_shared_hashtag(found) == \E i \in DOMAIN SHARED_HASHTAGS : SHARED_HASHTAGS[i] \in found

\* line 48
AllContent(t, tags) == ToLower(t) \o " " \o Join(LowerAll(tags), " ")

\* mutation: the keyword tie-break runs whenever a country hashtag matched
tie_break_always(shared, country_specific_count) == TRUE

\* mutation: the comparison of line 67 reversed into an excess test
tie_break_on_excess(shared, country_specific_count) ==
    shared > 0 /\ country_specific_count > shared

\* line 67
tie_break_taken(shared, country_specific_count) ==
    shared > 0 /\ country_specific_count = shared

\* mutation: the tie-break also scores the venue terms
keyword_tie_break_with_venues(found) ==
    LET kw == [c \in Range(Countries) |->
                  keyword_score(c, found) + venue_score(c, found)]
        country_keyword_scores == KeysFrom(1, {c \in Range(Countries) : kw[c] > 0})
    IN  IF country_keyword_scores # <<>>
        THEN MaxKey(country_keyword_scores, kw)
        ELSE "Pamoja"

\* lines 69-78: the keyword tie-break of the hashtag stage
keyword_tie_break(found) ==
    LET kw == [c \in Range(Countries) |-> keyword_score(c, found)]
        country_keyword_scores == KeysFrom(1, {c \in Range(Countries) : kw[c] > 0})
    IN  IF country_keyword_scores # <<>>
        THEN MaxKey(country_keyword_scores, kw)
        ELSE "Pamoja"

\* mutation: the final `return 'General'` is lost, so the call returns None
general_fallback_no_default(found) ==
    IF has_chan_content(found) \/ has_shared_hashtag(found)
    THEN "CHAN-General"
    ELSE "None"

\* mutation: only the generic indicators are looked for, not the shared hashtags
general_fallback_indicators_only(found) ==
    IF has_chan_content(found) THEN "CHAN-General" ELSE "General"

\* lines 125-133
general_fallback(found) ==
    IF has_chan_content(found) \/ has_shared_hashtag(found)
    THEN "CHAN-General"
    ELSE "General"

\* mutation: the venue loop of lines 117-120 is skipped
keyword_venue_stage_no_venues(found) ==
    LET kw == [c \in Range(Countries) |-> keyword_score(c, found)]
        country_scores == KeysFrom(1, {c \in Range(Countries) : kw[c] > 0})
    IN  IF country_scores # <<>>
        THEN MaxKey(country_scores, kw)
        ELSE general_fallback(found)

\* mutation: the score dict is keyed in table order whatever loop scored
keyword_venue_stage_table_order(found) ==
    LET total == [c \in Range(Countries) |->
                     keyword_score(c, found) + venue_score(c, found)]
        country_scores == KeysFrom(1, {c \in Range(Countries) : total[c] > 0})
    IN  IF country_scores # <<>>
        THEN MaxKey(country_scores, total)
        ELSE general_fallback(found)

\* lines 83-87 and 117-133: keyword scores, then venue scores added into the
\* same dict (a country first seen in the venue loop is inserted after the
\* countries of the keyword loop)
keyword_venue_stage(found) ==
    LET kw == [c \in Range(Countries) |-> keyword_score(c, found)]
        vn == [c \in Range(Countries) |-> venue_score(c, found)]
        country_scores ==
            KeysFrom(1, {c \in Range(Countries) : kw[c] > 0})
            \o KeysFrom(1, {c \in Range(Countries) : kw[c] = 0 /\ vn[c] > 0})
        total == [c \in Range(Countries) |-> kw[c] + vn[c]]
    IN  IF country_scores # <<>>
        THEN MaxKey(country_scores, total)
        ELSE general_fallback(found)

\* lines 52-133: the cascade over the lowercased hashtags (line 47) and the
\* table terms found in the content (line 48)
cascade(hashtags_lower, found) ==
    LET hm == [c \in Range(Countries) |-> hashtag_matches(c, hashtags_lower)]
        country_hashtag_scores == KeysFrom(1, {c \in Range(Countries) : hm[c] > 0})
        country_specific_count == hm[MaxKey(country_hashtag_scores, hm)]
    IN  IF country_hashtag_scores # <<>>
        THEN IF tie_break_taken(shared_count(hashtags_lower), country_specific_count)
             THEN keyword_tie_break(found)
             ELSE MaxKey(country_hashtag_scores, hm)
        ELSE keyword_venue_stage(found)

\* lines 44-133
categorize_country(t, tags) == cascade(LowerAll(tags), TermsIn(AllContent(t, tags)))

(***************************************************************************)
(* Inputs: a text is up to MaxFragments fragments joined by one space, a   *)
(* hashtag list is up to MaxTags entries of HashtagPool, in any order and  *)
(* with repeats.                                                           *)
(***************************************************************************)
SeqsUpTo(S, n) == UNION {[1..k -> S] : k \in 0..n}

\* fragments of the texts handed to categorize_country directly
Fragments ==
    {"good morning everyone",
     "excited for Kasarani showdown",
     "nakivubo derby tonight",
     "go harambee stars go",
     "harambee fans at nakivubo",
     "Kenya Nairobi harambee stars",
     "caf confirms totalenergies sponsorship",
     "market day",
     "kasarani to kasarani",
     "uganda at kasarani",
     "#pamoja"}

\* fragments of tweet texts, from which process_tweet extracts the hashtags
TweetFragments ==
    {"good morning everyone",
     "go harambee stars go #HarambeeStars",
     "cranes fly #UgandaCranes",
     "mkapa is full",
     "excited for Kasarani showdown",
     "caf confirms totalenergies sponsorship",
     "#CHAN2024",
     "#CHAN2024 #Pamoja",
     "#Pamoja! #EAC"}

HashtagPool ==
    {"#chan2024", "#totalenergieschan2024", "#pamoja", "#harambeestars",
     "#ugandacranes", "#taifastars", "#UgandaCranes", "#football"}

Texts == {Join(ws, " ") : ws \in SeqsUpTo(Fragments, MaxFragments)}
TweetTexts == {Join(ws, " ") : ws \in SeqsUpTo(TweetFragments, MaxFragments)}
HashtagLists == SeqsUpTo(HashtagPool, MaxTags)

(***************************************************************************)
(* Sentiment labelling, src/main.py analyze_sentiment.  The compound score *)
(* of the lexicon scorer lies in [-1, 1]; it is modelled in hundredths.    *)
(***************************************************************************)
MaxCompound == 100

Compounds == (0 - MaxCompound)..MaxCompound

\* 0.05 and -0.05 in hundredths (lines 56 and 58)
PositiveThreshold == 5
NegativeThreshold == 0 - 5

\* mutation: the two comparisons made strict
sentiment_label_strict(compound) ==
    IF compound > PositiveThreshold THEN "positive"
    ELSE IF compound < NegativeThreshold THEN "negative"
    ELSE "neutral"

\* lines 56-61
sentiment_label(compound) ==
    IF compound >= PositiveThreshold THEN "positive"
    ELSE IF compound <= NegativeThreshold THEN "negative"
    ELSE "neutral"

\* lines 51-63: `return compound, label`
analyze_sentiment(compound) == [score |-> compound, label |-> sentiment_label(compound)]

NoSentiment == [score |-> 0, label |-> ""]

(***************************************************************************)
(* The tweets store, src/db.py.  The table is the sequence of its rows in  *)
(* insertion order.                                                        *)
(***************************************************************************)

\* mutation: only Pamoja counts as shared content
is_shared_pamoja_only(country) == country = "Pamoja"

\* line 116
is_shared(country) == country \in {"Pamoja", "CHAN-General"}

\* a dict with one more key
WithKey(d, k, v) == [f \in DOMAIN d \cup {k} |-> IF f = k THEN v ELSE d[f]]

\* lines 118-131: the row of the INSERT
RowOf(tweet_data) == WithKey(tweet_data, "is_shared_content", is_shared(tweet_data.country))

\* mutation: the table has no UNIQUE constraint on tweet_id
conflict_never(table, tweet_id) == FALSE

\* lines 29 and 112: a row with this tweet_id is already in the table
conflict(table, tweet_id) == \E i \in DOMAIN table : table[i].tweet_id = tweet_id

\* lines 102-140: the table after insert_tweet and the value it returns;
\* db_ok = FALSE is an exception of the driver (lines 137-140)
insert_tweet(table, tweet_data, db_ok) ==
    IF ~db_ok THEN [table |-> table, success |-> FALSE]
    ELSE IF conflict(table, tweet_data.tweet_id) THEN [table |-> table, success |-> TRUE]
    ELSE [table |-> Append(table, RowOf(tweet_data)), success |-> TRUE]

(***************************************************************************)
(* process_tweet, src/main.py lines 72-133, and the channels.              *)
(***************************************************************************)

\* src/config.py lines 26-32, with the default names of the two channels
\* that the environment can rename
KAFKA_TOPICS ==
    [raw       |-> "chan2024-tweets-raw",
     processed |-> "chan2024-tweets-processed",
     kenya     |-> "kenya-hashtags",
     uganda    |-> "uganda-hashtags",
     tanzania  |-> "tanzania-hashtags"]

host_countries == <<"kenya", "uganda", "tanzania">>

UpperOf ==
    [c \in Chars(LowerCase) |->
        CharAt(UpperCase, CHOOSE k \in 1..Len(LowerCase) : CharAt(LowerCase, k) = c)]

IsCased(c) == c \in UpperChars \/ c \in Chars(LowerCase)

\* str.title(): a cased character is made upper case when the character
\* before it is not cased, lower case otherwise
RECURSIVE TitleFrom(_, _)
TitleFrom(s, i) ==
    IF i > Len(s) THEN ""
    ELSE LET c == CharAt(s, i)
             starts == i = 1 \/ ~IsCased(CharAt(s, i - 1))
         IN  (IF starts /\ c \in DOMAIN UpperOf THEN UpperOf[c]
              ELSE IF starts THEN c
              ELSE LowerChar(c))
             \o TitleFrom(s, i + 1)

Title(s) == TitleFrom(s, 1)

\* the texts of the raw tweets, one for each label of the vocabulary
TweetTextPool ==
    {"go harambee stars go #HarambeeStars",
     "cranes fly #UgandaCranes",
     "mkapa is full",
     "#CHAN2024",
     "caf confirms totalenergies sponsorship",
     "good morning everyone"}

TweetIds == {1, 2}

\* the compound scores that the scorer gives the raw tweets
TweetCompounds == {0 - 30, 40}

\* lines 80-81 for the texts of the raw tweets
HashtagsOfTweet == [t \in TweetTextPool |-> extract_hashtags(t)]
CountryOfTweet == [t \in TweetTextPool |-> categorize_country(t, HashtagsOfTweet[t])]

\* dict.get(key, default)
Get(d, k, default) == IF k \in DOMAIN d THEN d[k] ELSE default

\* lines 76-99: the record assembled from a raw tweet (of the pass-through
\* fields the model keeps like_count)
processed_tweet(tweet_data, compound) ==
    [tweet_id        |-> ToString(tweet_data.id),
     text            |-> tweet_data.text,
     hashtags        |-> HashtagsOfTweet[tweet_data.text],
     country         |-> CountryOfTweet[tweet_data.text],
     sentiment_score |-> analyze_sentiment(compound).score,
     sentiment_label |-> analyze_sentiment(compound).label,
     like_count      |-> Get(Get(tweet_data, "public_metrics", <<>>), "like_count", 0)]

\* mutation: every country's records go to the first country channel
topic_of_first(country) == KAFKA_TOPICS[host_countries[1]]

\* line 107
topic_of(country) == KAFKA_TOPICS[ToLower(country)]

\* mutation: the copy is tagged with the channel key as it is, not titled
shared_copy_untitled(record, host_country) ==
    WithKey(record, "shared_for_country", host_country)

\* lines 117-118
shared_copy(record, host_country) ==
    WithKey(record, "shared_for_country", Title(host_country))

\* mutation: whatever is not labelled with a host country is broadcast
routed_all_broadcast(record) ==
    IF record.country \in {"Kenya", "Uganda", "Tanzania"}
    THEN <<[topic |-> topic_of(record.country), value |-> record]>>
    ELSE [i \in DOMAIN host_countries |->
             [topic |-> KAFKA_TOPICS[host_countries[i]],
              value |-> shared_copy(record, host_countries[i])]]

\* lines 106-123: the messages produced for a stored record, in order
routed(record) ==
    IF record.country \in {"Kenya", "Uganda", "Tanzania"}
    THEN <<[topic |-> topic_of(record.country), value |-> record]>>
    ELSE IF record.country \in {"Pamoja", "CHAN-General"}
    THEN [i \in DOMAIN host_countries |->
             [topic |-> KAFKA_TOPICS[host_countries[i]],
              value |-> shared_copy(record, host_countries[i])]]
    ELSE <<>>

\* producer.produce for each message of a list
RECURSIVE Produce(_, _)
Produce(channels, messages) ==
    IF messages = <<>> THEN channels
    ELSE Produce([channels EXCEPT ![messages[1].topic] = Append(@, messages[1].value)],
                 Tail(messages))

OutputTopics ==
    {KAFKA_TOPICS.processed, KAFKA_TOPICS.kenya, KAFKA_TOPICS.uganda, KAFKA_TOPICS.tanzania}

NoRecord == [tweet_id |-> ""]

\* the Kafka consumer: whether it is closed, how often close() was called on
\* it, and whether poll() was called on it after it was closed
OpenConsumer == [closed |-> FALSE, closes |-> 0, polled_closed |-> FALSE]

\* consumer.close()
Close(c) == [c EXCEPT !.closed = TRUE, !.closes = @ + 1]

\* no fetch_and_produce_tweets call yet
NoFetch == [called |-> FALSE, results |-> <<<<>>, <<>>, <<>>>>, produced |-> <<>>, returned |-> 0]

\* no get_country_rankings call yet
NoRankings == [called |-> FALSE, rows |-> <<>>, result |-> <<>>]

\* what the last step of a loop did
Outcome(kind, record, success) == [kind |-> kind, record |-> record, success |-> success]

(***************************************************************************)
(* State machine.  pc = "idle": no call in progress; pc = "done": a call   *)
(* has returned label for (text, hashtags).  evidence records what that    *)
(* call was given: the hashtags in lowercase (line 47) and, for the        *)
(* content (line 48), the table terms found in it, per country the number  *)
(* of its keywords and of its                                              *)
(* venue terms found, and whether a generic indicator or a shared hashtag  *)
(* occurs in it.  returned collects the labels that tweets have been given *)
(* so far.                                                                 *)
(***************************************************************************)
Evidence(hashtags_lower, found) ==
    [tags      |-> hashtags_lower,
     terms     |-> found,
     keywords  |-> [c \in Range(Countries) |-> keyword_score(c, found)],
     venues    |-> [c \in Range(Countries) |-> venue_hits(c, found)],
     indicator |-> has_chan_content(found),
     shared    |-> has_shared_hashtag(found)]

NoEvidence ==
    [tags      |-> <<>>,
     terms     |-> {},
     keywords  |-> [c \in Range(Countries) |-> 0],
     venues    |-> [c \in Range(Countries) |-> 0],
     indicator |-> FALSE,
     shared    |-> FALSE]

Init ==
    /\ pc = "idle"
    /\ text = ""
    /\ hashtags = <<>>
    /\ label = ""
    /\ evidence = NoEvidence
    /\ returned = {}
    /\ sentiment = NoSentiment
    /\ loop = "off"
    /\ consumed = 0
    /\ outcome = Outcome("none", NoRecord, FALSE)
    /\ tweets = <<>>
    /\ topics = [t \in OutputTopics |-> <<>>]
    /\ main_thread = "idle"
    /\ consumer = OpenConsumer
    /\ fetch = NoFetch
    /\ rankings = NoRankings

\* the call categorize_country(t, h) returns
Returns(t, h) ==
    \E hashtags_lower \in {LowerAll(h)}, found \in {TermsIn(AllContent(t, h))} :
        /\ text' = t
        /\ hashtags' = h
        /\ label' = cascade(hashtags_lower, found)
        /\ evidence' = Evidence(hashtags_lower, found)
        /\ pc' = "done"

\* a direct call of categorize_country
CategorizeCall ==
    /\ pc = "idle"
    /\ \E t \in Texts, h \in HashtagLists : Returns(t, h)
    /\ UNCHANGED <<returned, sentiment, pipeline_vars, shutdown_vars, report_vars>>

\* src/main.py process_tweet lines 76-81: the hashtags are extracted from the
\* tweet's own text
ClassifyTweet ==
    /\ pc = "idle"
    /\ \E t \in TweetTexts : Returns(t, extract_hashtags(t))
    /\ returned' = returned \cup {label'}
    /\ UNCHANGED <<sentiment, pipeline_vars, shutdown_vars, report_vars>>

\* the caller takes the label; the next call starts afresh
Return ==
    /\ pc = "done"
    /\ pc' = "idle"
    /\ text' = ""
    /\ hashtags' = <<>>
    /\ label' = ""
    /\ evidence' = NoEvidence
    /\ UNCHANGED <<returned, sentiment, pipeline_vars, shutdown_vars, report_vars>>

Next == CategorizeCall \/ Return

Spec == Init /\ [][Next]_vars

NextTweet == ClassifyTweet \/ Return

SpecTweet == Init /\ [][NextTweet]_vars

(***************************************************************************)
(* The consumer loops, src/main.py.  One step is one iteration of a loop:  *)
(* a poll of the raw channel and the handling of what it returned.         *)
(* loop is "off" before a mode is started, "realtime" or "batch" while its *)
(* loop runs, "batch_ended" after the batch loop; consumed counts the      *)
(* iterations; outcome tells what the last one did; tweets is the tweets   *)
(* table; topics holds the messages published on each output channel.      *)
(***************************************************************************)
MaxMessages == 2

\* the raw tweets: with and without public_metrics, and one without text
RawTweets ==
    {[id |-> i, text |-> t] : i \in TweetIds, t \in TweetTextPool}
    \cup {[id |-> i, text |-> t, public_metrics |-> [like_count |-> 7]] :
             i \in TweetIds, t \in {"#CHAN2024"}}
    \cup {[id |-> 1]}

\* what consumer.poll returns: nothing, an error event, or a message whose
\* payload is a JSON document or not
PollResults ==
    {[kind |-> "none"],
     [kind |-> "error", code |-> "_PARTITION_EOF"],
     [kind |-> "error", code |-> "_TRANSPORT"],
     [kind |-> "message", json |-> FALSE]}
    \cup {[kind |-> "message", json |-> TRUE, data |-> d] : d \in RawTweets}

\* mutation: the record is routed whatever insert_tweet answered
process_tweet_ungated(table, channels, tweet_data, compound, db_ok) ==
    IF "text" \notin DOMAIN tweet_data
    THEN [returned |-> FALSE, record |-> NoRecord, success |-> FALSE,
          table |-> table, channels |-> channels]
    ELSE LET record == processed_tweet(tweet_data, compound)
             stored == insert_tweet(table, record, db_ok)
         IN  [returned |-> TRUE, record |-> record, success |-> stored.success,
              table    |-> stored.table,
              channels |-> Produce(channels, routed(record))]

\* lines 72-133: what process_tweet returns (returned = FALSE is None, after
\* the KeyError of line 76), what insert_tweet answered, and the table and
\* the channels after it
process_tweet(table, channels, tweet_data, compound, db_ok) ==
    IF "text" \notin DOMAIN tweet_data
    THEN [returned |-> FALSE, record |-> NoRecord, success |-> FALSE,
          table |-> table, channels |-> channels]
    ELSE LET record == processed_tweet(tweet_data, compound)
             stored == insert_tweet(table, record, db_ok)
         IN  [returned |-> TRUE, record |-> record, success |-> stored.success,
              table    |-> stored.table,
              channels |-> IF stored.success
                           THEN Produce(channels, routed(record))
                           ELSE channels]

\* lines 335-350: the real-time mode starts its consumer loop
StartRealTime ==
    /\ loop = "off"
    /\ loop' = "realtime"
    /\ outcome' = Outcome("started", NoRecord, FALSE)
    /\ main_thread' = "sleeping"
    /\ UNCHANGED <<consumed, tweets, topics, sentiment, classifier_vars, consumer, report_vars>>

\* lines 297-309: the batch mode starts its consumer loop
StartBatch ==
    /\ loop = "off"
    /\ loop' = "batch"
    /\ outcome' = Outcome("started", NoRecord, FALSE)
    /\ UNCHANGED <<consumed, tweets, topics, sentiment, classifier_vars, shutdown_vars, report_vars>>

\* an iteration that handles no tweet
Skip(kind) ==
    /\ outcome' = Outcome(kind, NoRecord, FALSE)
    /\ UNCHANGED <<tweets, topics>>

\* lines 185-216: one iteration of consume_and_process_tweets
ConsumeRealTime ==
    /\ loop = "realtime"
    /\ consumed < MaxMessages
    /\ consumed' = consumed + 1
    /\ consumer' = IF consumer.closed
                   THEN Close([consumer EXCEPT !.polled_closed = TRUE])
                   ELSE consumer
    /\ \E msg \in PollResults, compound \in TweetCompounds, db_ok \in BOOLEAN :
          \* poll on a closed consumer raises; lines 218-221 log it and close
          \* the consumer
          IF consumer.closed THEN Skip("poll_error") /\ loop' = "realtime_ended"
          ELSE IF msg.kind = "none" THEN Skip("no_message") /\ loop' = loop
          ELSE IF msg.kind = "error"
          THEN /\ Skip(IF msg.code = "_PARTITION_EOF" THEN "partition_eof"
                       ELSE "consumer_error")
               /\ loop' = loop
          ELSE IF ~msg.json THEN Skip("decode_error") /\ loop' = loop
          ELSE \E p \in {process_tweet(tweets, topics, msg.data, compound, db_ok)} :
                  /\ loop' = loop
                  /\ IF p.returned
                     THEN /\ outcome' = Outcome("processed", p.record, p.success)
                          /\ tweets' = p.table
                          /\ topics' = Produce(p.channels,
                                 <<[topic |-> KAFKA_TOPICS.processed, value |-> p.record]>>)
                     ELSE Skip("process_error")
    /\ UNCHANGED <<sentiment, classifier_vars, main_thread, report_vars>>

\* lines 311-330: one iteration of the loop of run_batch_analysis
ConsumeBatch ==
    /\ loop = "batch"
    /\ consumed < MaxMessages
    /\ consumed' = consumed + 1
    /\ \E msg \in PollResults, compound \in TweetCompounds, db_ok \in BOOLEAN :
          IF msg.kind = "none" THEN Skip("no_message") /\ loop' = loop
          ELSE IF msg.kind = "error"
          THEN IF msg.code = "_PARTITION_EOF"
               THEN Skip("partition_eof") /\ loop' = loop
               ELSE Skip("consumer_error") /\ loop' = "batch_ended"
          ELSE IF ~msg.json THEN Skip("decode_error") /\ loop' = loop
          ELSE \E p \in {process_tweet(tweets, topics, msg.data, compound, db_ok)} :
                  /\ loop' = loop
                  /\ IF p.returned
                     THEN /\ outcome' = Outcome("processed", p.record, p.success)
                          /\ tweets' = p.table
                          /\ topics' = p.channels
                     ELSE Skip("process_error")
    /\ UNCHANGED <<sentiment, classifier_vars, shutdown_vars, report_vars>>

\* line 311: the minute of the batch loop is over
BatchTimeout ==
    /\ loop = "batch"
    /\ loop' = "batch_ended"
    /\ outcome' = Outcome("timeout", NoRecord, FALSE)
    /\ UNCHANGED <<consumed, tweets, topics, sentiment, classifier_vars, shutdown_vars, report_vars>>

\* lines 357-359: Ctrl-C reaches the main thread, which closes the consumer
\* and returns
KeyboardInterrupt ==
    /\ main_thread = "sleeping"
    /\ main_thread' = "returned"
    /\ consumer' = Close(consumer)
    /\ UNCHANGED <<pipeline_vars, sentiment, classifier_vars, report_vars>>

\* lines 371-377 and 348-350: main has returned, the process ends and takes
\* the daemon consumer thread with it
ProcessExit ==
    /\ main_thread = "returned"
    /\ main_thread' = "exited"
    /\ loop' = "killed"
    /\ outcome' = Outcome("exit", NoRecord, FALSE)
    /\ UNCHANGED <<consumed, tweets, topics, consumer, sentiment, classifier_vars, report_vars>>

NextRealTime == StartRealTime \/ ConsumeRealTime \/ KeyboardInterrupt \/ ProcessExit

SpecRealTime == Init /\ [][NextRealTime]_vars

NextPipeline ==
    StartRealTime \/ StartBatch \/ ConsumeRealTime \/ ConsumeBatch \/ BatchTimeout

SpecPipeline == Init /\ [][NextPipeline]_vars

\* lines 51-63: a call of analyze_sentiment on a text whose compound score
\* is c
AnalyzeSentiment ==
    /\ \E c \in Compounds : sentiment' = analyze_sentiment(c)
    /\ UNCHANGED <<classifier_vars, pipeline_vars, shutdown_vars, report_vars>>

NextSentiment == AnalyzeSentiment

SpecSentiment == Init /\ [][NextSentiment]_vars

(***************************************************************************)
(* fetch_and_produce_tweets, src/main.py lines 135-178.  fetch holds the    *)
(* results of the three searches of the last call, the messages the call   *)
(* produced to the raw channel, and the value it returned.                 *)
(***************************************************************************)
MaxFetched == 1

\* what a search can return of a tweet: the same id can come back from
\* several searches with other engagement counts
FetchedTweets ==
    {[id |-> i, public_metrics |-> [like_count |-> k]] : i \in TweetIds, k \in {0, 7}}

\* src/twitter_client.py lines 31-58: the list a search returns, empty after
\* an error
SearchResults == SeqsUpTo(FetchedTweets, MaxFetched)

\* mutation: the first copy of an id is kept
unique_put_keep_first(unique_tweets, tweet) ==
    IF \E k \in DOMAIN unique_tweets : unique_tweets[k].id = tweet.id
    THEN unique_tweets
    ELSE Append(unique_tweets, tweet)

\* line 159, unique_tweets[tweet['id']] = tweet, on a dict kept as the
\* sequence of its values in insertion order: a new id is added at the end,
\* a known id keeps its place and takes the new value
unique_put(unique_tweets, tweet) ==
    IF \E k \in DOMAIN unique_tweets : unique_tweets[k].id = tweet.id
    THEN [k \in DOMAIN unique_tweets |->
             IF unique_tweets[k].id = tweet.id THEN tweet ELSE unique_tweets[k]]
    ELSE Append(unique_tweets, tweet)

\* lines 157-161
RECURSIVE final_tweets(_, _)
final_tweets(unique_tweets, all_tweets) ==
    IF all_tweets = <<>> THEN unique_tweets
    ELSE final_tweets(unique_put(unique_tweets, all_tweets[1]), Tail(all_tweets))

\* lines 149-174 for the results of the three searches
fetch_and_produce_tweets(results) ==
    LET all_tweets == results[1] \o results[2] \o results[3]
        final == final_tweets(<<>>, all_tweets)
    IN  [called   |-> TRUE,
         results  |-> results,
         produced |-> final,
         returned |-> Len(final)]

\* a call of fetch_and_produce_tweets
FetchAndProduce ==
    /\ ~fetch.called
    /\ \E kenya \in SearchResults, uganda \in SearchResults, tanzania \in SearchResults :
          fetch' = fetch_and_produce_tweets(<<kenya, uganda, tanzania>>)
    /\ UNCHANGED <<classifier_vars, sentiment, pipeline_vars, shutdown_vars, rankings>>

\* line 366: the caller sleeps until the next cycle
FetchDone ==
    /\ fetch.called
    /\ fetch' = NoFetch
    /\ UNCHANGED <<classifier_vars, sentiment, pipeline_vars, shutdown_vars, rankings>>

NextFetch == FetchAndProduce \/ FetchDone

SpecFetch == Init /\ [][NextFetch]_vars

(***************************************************************************)
(* get_country_rankings, src/utils/metrics.py lines 49-74.  rankings holds *)
(* the rows the store returned to the last call and the mapping the call   *)
(* returned.                                                               *)
(***************************************************************************)
MaxCount == 3

\* src/db.py lines 200-214: one row for each country that has tweets, the
\* rows ordered by tweet_count, largest first
StoreRows ==
    {r \in UNION {[1..n -> [country : Range(Countries), tweet_count : 1..MaxCount]] :
                     n \in 0..Len(Countries)} :
        /\ \A i, j \in DOMAIN r : r[i].country = r[j].country => i = j
        /\ \A i \in 1..(Len(r) - 1) : r[i].tweet_count >= r[i + 1].tweet_count}

\* a row put into a list sorted by tweet_count, largest first, after the rows
\* that are not smaller
RECURSIVE insert_desc(_, _)
insert_desc(sorted_rows, row) ==
    IF sorted_rows = <<>> THEN <<row>>
    ELSE IF sorted_rows[1].tweet_count >= row.tweet_count
    THEN <<sorted_rows[1]>> \o insert_desc(Tail(sorted_rows), row)
    ELSE <<row>> \o sorted_rows

\* a row put into a list sorted by tweet_count, smallest first
RECURSIVE insert_asc(_, _)
insert_asc(sorted_rows, row) ==
    IF sorted_rows = <<>> THEN <<row>>
    ELSE IF sorted_rows[1].tweet_count <= row.tweet_count
    THEN <<sorted_rows[1]>> \o insert_asc(Tail(sorted_rows), row)
    ELSE <<row>> \o sorted_rows

RECURSIVE sorted_asc(_, _)
sorted_asc(rows, i) ==
    IF i = 0 THEN <<>> ELSE insert_asc(sorted_asc(rows, i - 1), rows[i])

\* the first i rows sorted by tweet_count, largest first, rows of equal
\* tweet_count in their order in rows
RECURSIVE sorted_desc(_, _)
sorted_desc(rows, i) ==
    IF i = 0 THEN <<>> ELSE insert_desc(sorted_desc(rows, i - 1), rows[i])

\* mutation: reverse=True is lost
ranked_ascending(country_comparison) ==
    sorted_asc(country_comparison, Len(country_comparison))

\* line 57: sorted(country_comparison, key=tweet_count, reverse=True), a
\* stable sort
ranked_countries(country_comparison) ==
    sorted_desc(country_comparison, Len(country_comparison))

\* lines 51-74: the mapping returned (of a country's entry the model keeps
\* rank and tweet_count); a country named by several rows keeps the last
get_country_rankings(country_comparison) ==
    IF country_comparison = <<>> THEN <<>>
    ELSE LET ranked == ranked_countries(country_comparison)
             last(c) == CHOOSE i \in DOMAIN ranked :
                            /\ ranked[i].country = c
                            /\ \A j \in DOMAIN ranked : ranked[j].country = c => j <= i
         IN  [c \in {ranked[i].country : i \in DOMAIN ranked} |->
                 [rank |-> last(c), tweet_count |-> ranked[last(c)].tweet_count]]

\* a call of get_country_rankings
GetCountryRankings ==
    /\ ~rankings.called
    /\ \E rows \in StoreRows :
          rankings' = [called |-> TRUE, rows |-> rows, result |-> get_country_rankings(rows)]
    /\ UNCHANGED <<classifier_vars, sentiment, pipeline_vars, shutdown_vars, fetch>>

\* src/main.py lines 230-295: the report is printed from the mapping
ReportPrinted ==
    /\ rankings.called
    /\ rankings' = NoRankings
    /\ UNCHANGED <<classifier_vars, sentiment, pipeline_vars, shutdown_vars, fetch>>

NextRankings == GetCountryRankings \/ ReportPrinted

SpecRankings == Init /\ [][NextRankings]_vars

(***************************************************************************)
(* Vocabulary of the properties.  Hashtags are compared in lowercase, as   *)
(* line 47 prepares them.                                                  *)
(***************************************************************************)
CountrySet == Range(Countries)

TagsLower == evidence.tags

IsShared(tag) == Member(tag, SHARED_HASHTAGS)

InTableOf(c, tag) == Member(tag, COUNTRY_HASHTAGS[c])

\* a country-specific hashtag that is not a shared one
IsExclusiveOf(c, tag) == InTableOf(c, tag) /\ ~IsShared(tag)

HasExclusiveOf(c) == \E i \in DOMAIN TagsLower : IsExclusiveOf(c, TagsLower[i])

NoSharedTag == \A i \in DOMAIN TagsLower : ~IsShared(TagsLower[i])

AllTagsShared == hashtags # <<>> /\ \A i \in DOMAIN TagsLower : IsShared(TagsLower[i])

SomeTagInCountryTable ==
    \E i \in DOMAIN TagsLower : \E c \in CountrySet : InTableOf(c, TagsLower[i])

NoKeyword == \A c \in CountrySet : evidence.keywords[c] = 0

NoVenue == \A c \in CountrySet : evidence.venues[c] = 0

\* keyword hits plus 2 per venue hit
CombinedScore(c) == evidence.keywords[c] + 2 * evidence.venues[c]

(***************************************************************************)
(* Properties.                                                             *)
(***************************************************************************)

\* C1: every call of categorize_country, whatever the text and the hashtag
\* list (the empty list and evidence-free text included), returns a label of
\* the six-label vocabulary.
C1_Totality == pc = "done" => label \in CategoryVocabulary

\* C1 witness: a call with the empty hashtag list and a text without any
\* evidence has returned General.
C1_Witness ==
    /\ pc = "done"
    /\ text # ""
    /\ hashtags = <<>>
    /\ NoKeyword /\ NoVenue /\ ~evidence.indicator /\ ~evidence.shared
    /\ label = "General"

\* C2 as stated: a hashtag list holding a country-specific non-shared hashtag
\* and no shared hashtag yields that hashtag's country, whatever the text.
C2_AsStated ==
    pc = "done" =>
        \A c \in CountrySet : (HasExclusiveOf(c) /\ NoSharedTag) => label = c

\* C2 amended: a hashtag list holding a country-specific non-shared hashtag of
\* one country only, and no shared hashtag, yields that country, whatever the
\* text.
C2_ExclusiveHashtagPrecedence ==
    pc = "done" =>
        \A c \in CountrySet :
            (/\ HasExclusiveOf(c)
             /\ NoSharedTag
             /\ \A d \in CountrySet \ {c} : ~HasExclusiveOf(d))
            => label = c

\* C2 witness: #ugandacranes alone, against a text with a Kenya venue and
\* more Kenya keywords than the content has Uganda keywords, has returned
\* Uganda.
C2_Witness ==
    /\ pc = "done"
    /\ HasExclusiveOf("Uganda") /\ NoSharedTag
    /\ \A d \in CountrySet \ {"Uganda"} : ~HasExclusiveOf(d)
    /\ evidence.keywords["Kenya"] > evidence.keywords["Uganda"]
    /\ evidence.venues["Kenya"] > 0
    /\ label = "Uganda"

\* C3: when every input hashtag is a shared hashtag, at least one of them is
\* in the country hashtag tables, and there is no country keyword and no venue
\* term, the label is Pamoja.
C3_PureSharedIsPamoja ==
    (pc = "done" /\ AllTagsShared /\ SomeTagInCountryTable /\ NoKeyword /\ NoVenue)
        => label = "Pamoja"

\* C4: when every input hashtag is a shared hashtag and the text holds a venue
\* term of exactly one country, and no keyword or venue term of another
\* country, the label is that country.
C4_VenueBreaksSharedTie ==
    (pc = "done" /\ AllTagsShared) =>
        \A c \in CountrySet :
            (/\ evidence.venues[c] > 0
             /\ \A d \in CountrySet \ {c} :
                   evidence.venues[d] = 0 /\ evidence.keywords[d] = 0)
            => label = c

\* C5: with the empty hashtag list and at least one country keyword in the
\* text, the label is the country whose score, keyword hits plus 2 per venue
\* hit, is strictly the highest.
C5_KeywordFallback ==
    (pc = "done" /\ hashtags = <<>> /\ ~NoKeyword) =>
        \A c \in CountrySet :
            (\A d \in CountrySet \ {c} : CombinedScore(c) > CombinedScore(d))
            => label = c

\* C5 witness: a call with no hashtags whose text gives Kenya two keyword hits
\* and Tanzania one has returned Kenya.
C5_Witness ==
    /\ pc = "done"
    /\ hashtags = <<>>
    /\ evidence.keywords["Kenya"] = 2
    /\ evidence.keywords["Tanzania"] = 1
    /\ NoVenue
    /\ label = "Kenya"

\* C6: the label is CHAN-General exactly when no input hashtag is in a country
\* hashtag table, the content has no country keyword and no venue term, and
\* the content holds a generic event indicator or a shared hashtag.
C6_ChanGeneralExactly ==
    pc = "done" =>
        (label = "CHAN-General" <=>
            /\ ~SomeTagInCountryTable
            /\ NoKeyword /\ NoVenue
            /\ (evidence.indicator \/ evidence.shared))

\* C6 witness: #pamoja alone, with no generic indicator in the content, has
\* returned CHAN-General.
C6_Witness ==
    /\ pc = "done"
    /\ hashtags = <<"#pamoja">>
    /\ ~evidence.indicator
    /\ label = "CHAN-General"

\* C7: the label is General exactly when there is no country-table hashtag,
\* no country keyword, no venue term, no generic indicator and no shared
\* hashtag.
C7_GeneralExactly ==
    pc = "done" =>
        (label = "General" <=>
            /\ ~SomeTagInCountryTable
            /\ NoKeyword /\ NoVenue
            /\ ~evidence.indicator /\ ~evidence.shared)

\* C7 witness: the text "good morning everyone" with no hashtags has returned
\* General.
C7_Witness ==
    /\ pc = "done"
    /\ text = "good morning everyone"
    /\ hashtags = <<>>
    /\ label = "General"

\* the labels that categorize_country gives the tweet texts, each with the
\* lowercase hashtags extracted from it
TweetLabels == {categorize_country(t, extract_hashtags(t)) : t \in TweetTexts}

\* C9: each of the six labels is returned for some tweet text together with
\* the lowercase hashtags extracted from it: whenever a tweet is about to be
\* classified, every label of the vocabulary is the outcome for some tweet.
C9_NoDeadLabel ==
    pc = "idle" => \A l \in CategoryVocabulary : l \in TweetLabels

\* C9 witness: tweets have by now been given every one of the six labels.
C9_Witness == returned = CategoryVocabulary

\* C10: when every input hashtag is a shared hashtag and the content has no
\* country keyword and no venue term, the label is none of the three
\* countries.
C10_SharedNeverPicksCountry ==
    (pc = "done" /\ AllTagsShared /\ NoKeyword /\ NoVenue)
        => label \notin CountrySet

(***************************************************************************)
(* Vocabulary of the pipeline properties.                                  *)
(***************************************************************************)

\* the channel of each host country
ChannelOf ==
    [Kenya |-> "kenya-hashtags", Uganda |-> "uganda-hashtags", Tanzania |-> "tanzania-hashtags"]

SharedLabels == {"Pamoja", "CHAN-General"}

\* this step is a loop iteration in which process_tweet assembled a record
\* and insert_tweet answered True
StoredStep ==
    /\ consumed' = consumed + 1
    /\ outcome'.kind = "processed"
    /\ outcome'.success

\* channel ch received exactly the message m in this step
Received(ch, m) == topics'[ch] = Append(topics[ch], m)

\* m is record r with the one added entry shared_for_country = c
IsSharedCopy(m, r, c) ==
    /\ DOMAIN m = DOMAIN r \cup {"shared_for_country"}
    /\ m.shared_for_country = c
    /\ \A f \in DOMAIN r : m[f] = r[f]

\* C11: in every loop iteration whose tweet is labelled Kenya, Uganda or
\* Tanzania and stored successfully, that country's channel receives exactly
\* one message, the record, and the other two country channels receive none.
C11_CountryRouting ==
    [][\A c \in CountrySet :
          (StoredStep /\ outcome'.record.country = c) =>
              /\ Received(ChannelOf[c], outcome'.record)
              /\ \A d \in CountrySet \ {c} : topics'[ChannelOf[d]] = topics[ChannelOf[d]]]_vars

\* C11 witness: a tweet labelled Uganda has been stored and is the only
\* message on the three country channels, on uganda-hashtags.
C11_Witness ==
    /\ outcome.kind = "processed" /\ outcome.success
    /\ outcome.record.country = "Uganda"
    /\ topics["uganda-hashtags"] = <<outcome.record>>
    /\ topics["kenya-hashtags"] = <<>>
    /\ topics["tanzania-hashtags"] = <<>>

\* C12: in every loop iteration whose tweet is labelled Pamoja or CHAN-General
\* and stored successfully, each of the three country channels receives
\* exactly one message, a copy of the record that carries shared_for_country
\* equal to the channel's country.
C12_SharedBroadcast ==
    [][(StoredStep /\ outcome'.record.country \in SharedLabels) =>
          \A c \in CountrySet :
              /\ Len(topics'[ChannelOf[c]]) = Len(topics[ChannelOf[c]]) + 1
              /\ Received(ChannelOf[c], topics'[ChannelOf[c]][Len(topics'[ChannelOf[c]])])
              /\ IsSharedCopy(topics'[ChannelOf[c]][Len(topics'[ChannelOf[c]])],
                              outcome'.record, c)]_vars

\* C12 witness: a tweet labelled CHAN-General has been stored and each country
\* channel holds one copy of it tagged with the channel's country.
C12_Witness ==
    /\ outcome.kind = "processed" /\ outcome.success
    /\ outcome.record.country = "CHAN-General"
    /\ \A c \in CountrySet :
          /\ Len(topics[ChannelOf[c]]) = 1
          /\ IsSharedCopy(topics[ChannelOf[c]][1], outcome.record, c)

\* C13: the record that process_tweet assembled in the last loop iteration,
\* real-time or batch, is on the processed channel.
C13_AllRecordsReachProcessed ==
    outcome.kind = "processed" =>
        Member(outcome.record, topics["chan2024-tweets-processed"])

\* C14: the tweets table never holds two rows with one tweet_id, and a step
\* whose record has a tweet_id that is already stored leaves the table as it
\* was: the first write wins.
C14_StoreUniqueness ==
    [][/\ \A i, j \in DOMAIN tweets' :
             tweets'[i].tweet_id = tweets'[j].tweet_id => i = j
       /\ (/\ consumed' = consumed + 1
           /\ outcome'.kind = "processed"
           /\ \E i \in DOMAIN tweets : tweets[i].tweet_id = outcome'.record.tweet_id)
          => tweets' = tweets]_vars

\* C14 witness: the store holds one row, and a record with the same tweet_id
\* and another text has since been inserted with success and left it alone.
C14_Witness ==
    /\ outcome.kind = "processed" /\ outcome.success
    /\ Len(tweets) = 1
    /\ tweets[1].tweet_id = outcome.record.tweet_id
    /\ tweets[1].text # outcome.record.text
    /\ tweets[1].country # outcome.record.country

\* C15: every stored row has is_shared_content true exactly when its country
\* label is Pamoja or CHAN-General.
C15_SharedFlag ==
    \A i \in DOMAIN tweets :
        /\ tweets[i].is_shared_content \in BOOLEAN
        /\ tweets[i].is_shared_content <=> tweets[i].country \in SharedLabels

\* C15 witness: the store holds a CHAN-General row flagged shared and a
\* General row not flagged.
C15_Witness ==
    /\ \E i \in DOMAIN tweets :
          tweets[i].country = "CHAN-General" /\ tweets[i].is_shared_content
    /\ \E i \in DOMAIN tweets :
          tweets[i].country = "General" /\ ~tweets[i].is_shared_content

\* C16: with the compound score in hundredths, the label is positive exactly
\* when the score is at least 5, negative exactly when it is at most -5, and
\* neutral exactly in between; so the labels are exclusive, cover every score,
\* and 5 and -5 themselves are positive and negative.
C16_SentimentLabel ==
    sentiment.label # "" =>
        /\ sentiment.label \in {"positive", "negative", "neutral"}
        /\ sentiment.label = "positive" <=> sentiment.score >= 5
        /\ sentiment.label = "negative" <=> sentiment.score <= 0 - 5
        /\ sentiment.label = "neutral" <=> (sentiment.score > 0 - 5 /\ sentiment.score < 5)

\* C16 witness: the boundary score 0.05 has been labelled positive.
C16_Witness == sentiment.score = 5 /\ sentiment.label = "positive"

\* C17: after an iteration that failed (an undecodable payload, an exception
\* in process_tweet, a failed insert, a consumer error on the message) the
\* loop, real-time or batch, is still running.
C17_ContinueAfterFailure ==
    (\/ outcome.kind \in {"decode_error", "process_error", "consumer_error"}
     \/ (outcome.kind = "processed" /\ ~outcome.success))
    => loop \in {"realtime", "batch"}

\* C18: when the hashtags hold an exclusive hashtag of one country and none of
\* another country, the label is that country, whatever the text and whatever
\* shared hashtags come with it.
C18_ExclusiveOutranksKeywords ==
    pc = "done" =>
        \A c \in CountrySet :
            (HasExclusiveOf(c) /\ \A d \in CountrySet \ {c} : ~HasExclusiveOf(d))
            => label = c

\* the venue terms that are in no keyword table
VenueOnlyTerms ==
    UNION {Range(VENUE_KEYWORDS[c]) : c \in CountrySet}
    \ UNION {Range(COUNTRY_KEYWORDS[c]) : c \in CountrySet}

C20_CombinedScoring ==
    (pc = "done" /\ ~SomeTagInCountryTable /\ (~NoKeyword \/ ~NoVenue)) =>
        /\ label \in CountrySet
        /\ \A d \in CountrySet : CombinedScore(label) >= CombinedScore(d)

\* C20 witness: a text that names one Kenya venue twice and holds no keyword:
\* the venue entry counts once, Kenya is a candidate with score 2 and is
\* returned.
C20_Witness ==
    /\ pc = "done"
    /\ hashtags = <<>>
    /\ text = "kasarani to kasarani"
    /\ evidence.keywords["Kenya"] = 0
    /\ CombinedScore("Kenya") = 2
    /\ label = "Kenya"

(***************************************************************************)
(* Vocabulary of the tie and normalisation properties.                     *)
(***************************************************************************)

\* the country of a non-empty set that comes first in the table order
\* Kenya, Uganda, Tanzania
FirstInTableOrder(S) ==
    Countries[CHOOSE i \in DOMAIN Countries :
                 Countries[i] \in S /\ \A j \in 1..(i - 1) : Countries[j] \notin S]

\* the countries whose keyword+venue score is the maximum
TopScorers ==
    {c \in CountrySet : \A d \in CountrySet : CombinedScore(c) >= CombinedScore(d)}

\* the call was decided by the keyword/venue stage
DecidedByKeywordsAndVenues ==
    pc = "done" /\ ~SomeTagInCountryTable /\ (~NoKeyword \/ ~NoVenue)

\* the entries of a country's hashtag table that are among the input hashtags
HashtagScore(c) ==
    Cardinality({tag \in Range(COUNTRY_HASHTAGS[c]) : Member(tag, TagsLower)})

\* the input hashtags, repeats counted, that are shared hashtags
SharedTagCount == Cardinality({i \in DOMAIN TagsLower : IsShared(TagsLower[i])})

TopHashtagScorers ==
    {c \in CountrySet : \A d \in CountrySet : HashtagScore(c) >= HashtagScore(d)}

\* the test of line 67 fails for the call's hashtags
TieBreakNotTaken ==
    ~(SharedTagCount > 0 /\ \E c \in TopHashtagScorers : HashtagScore(c) = SharedTagCount)

\* C21 as stated: when the keyword/venue stage decides, the label is the
\* first country in table order among those with the maximum combined score.
C21_AsStated ==
    DecidedByKeywordsAndVenues => label = FirstInTableOrder(TopScorers)

\* C21 amended: when the keyword/venue stage decides, the label is, among the
\* countries with the maximum combined score, the first in table order of
\* those with a keyword hit, and only when none of them has a keyword hit the
\* first in table order of those that scored through venue terms alone.
C21_ScoreMapOrder ==
    DecidedByKeywordsAndVenues =>
        label = IF \E c \in TopScorers : evidence.keywords[c] > 0
                THEN FirstInTableOrder({c \in TopScorers : evidence.keywords[c] > 0})
                ELSE FirstInTableOrder(TopScorers)

\* C21 witness: Uganda with two keyword hits ties with Kenya's one venue hit,
\* and Uganda has been returned.
C21_Witness ==
    /\ pc = "done"
    /\ hashtags = <<>>
    /\ evidence.keywords["Uganda"] = 2 /\ evidence.venues["Uganda"] = 0
    /\ evidence.keywords["Kenya"] = 0 /\ evidence.venues["Kenya"] = 1
    /\ label = "Uganda"

\* C22: when an input hashtag is in a country table and the tie-break branch
\* is not taken, the label is the first country in table order among those
\* with the maximum number of hashtag-table matches.
C22_HashtagStageOrder ==
    (pc = "done" /\ SomeTagInCountryTable /\ TieBreakNotTaken)
        => label = FirstInTableOrder(TopHashtagScorers)

\* C22 witness: #taifastars followed by #ugandacranes, one match each for
\* Tanzania and Uganda, has returned Uganda.
C22_Witness ==
    /\ pc = "done"
    /\ hashtags = <<"#taifastars", "#ugandacranes">>
    /\ label = "Uganda"

\* a hashtag, exactly as supplied, is an entry of some country's table
GivenInCountryTable(tag) == \E c \in CountrySet : InTableOf(c, tag)

C28_HashtagSetOnly ==
    pc = "done" =>
        \A h \in {g \in HashtagLists : Range(g) = Range(hashtags)} :
            categorize_country(text, h) = label

\* some country channel received a message in this step
CountryChannelGrew == \E c \in CountrySet : topics'[ChannelOf[c]] # topics[ChannelOf[c]]

\* C24: no country channel holds two messages of one tweet id, however often
\* the tweet was consumed.
C24_AtMostOncePerChannel ==
    \A c \in CountrySet :
        \A i, j \in DOMAIN topics[ChannelOf[c]] :
            topics[ChannelOf[c]][i].tweet_id = topics[ChannelOf[c]][j].tweet_id => i = j

\* C25 as stated: an output channel, country or processed, receives a message
\* only in a step in which insert_tweet returned success.
C25_AsStated ==
    [][(\E t \in OutputTopics : topics'[t] # topics[t]) => StoredStep]_vars

\* C25 amended: a country channel receives a message only in a step in which
\* insert_tweet returned success.
C25_CountryChannelsGated ==
    [][CountryChannelGrew => StoredStep]_vars

\* C25 witness: the insert of a tweet labelled with a host country has failed;
\* the tweet is on no country channel, and the real-time loop has put it on
\* the processed channel.
C25_Witness ==
    /\ outcome.kind = "processed" /\ ~outcome.success
    /\ outcome.record.country \in CountrySet
    /\ \A c \in CountrySet : topics[ChannelOf[c]] = <<>>
    /\ topics["chan2024-tweets-processed"] = <<outcome.record>>

\* C26: every message on a country channel is labelled Kenya, Uganda,
\* Tanzania, Pamoja or CHAN-General, never General, and one labelled with a
\* host country is on that country's channel.
C26_NoGeneralOnCountryChannels ==
    \A c \in CountrySet :
        \A i \in DOMAIN topics[ChannelOf[c]] :
            /\ topics[ChannelOf[c]][i].country \in CountrySet \cup SharedLabels
            /\ topics[ChannelOf[c]][i].country \in CountrySet
                  => topics[ChannelOf[c]][i].country = c

\* C26 witness: two tweets have been consumed, one labelled General was the
\* last and was stored, and only the other is on a country channel.
C26_Witness ==
    /\ outcome.kind = "processed" /\ outcome.success
    /\ outcome.record.country = "General"
    /\ Len(tweets) = 2
    /\ topics["kenya-hashtags"] # <<>>
    /\ \A c \in CountrySet :
          \A i \in DOMAIN topics[ChannelOf[c]] :
              topics[ChannelOf[c]][i].tweet_id # outcome.record.tweet_id

\* the tweets of the three searches of the last fetch, in the order fetched
AllFetched == fetch.results[1] \o fetch.results[2] \o fetch.results[3]

C29_ClosedOnceNeverPolledAfter ==
    consumer.closes <= 1 /\ ~consumer.polled_closed

\* C30: the ranks of the mapping returned are exactly 1..n for the n rows of
\* the store, a row with a strictly larger tweet_count has a strictly smaller
\* rank, rows with equal tweet_count are ranked in the store's order, and no
\* rows give the empty mapping.
C30_Rankings ==
    rankings.called =>
        /\ DOMAIN rankings.result = {rankings.rows[i].country : i \in DOMAIN rankings.rows}
        /\ rankings.rows = <<>> => rankings.result = <<>>
        /\ {rankings.result[c].rank : c \in DOMAIN rankings.result} = 1..Len(rankings.rows)
        /\ \A i, j \in DOMAIN rankings.rows :
              /\ rankings.rows[i].tweet_count > rankings.rows[j].tweet_count
                    => rankings.result[rankings.rows[i].country].rank
                         < rankings.result[rankings.rows[j].country].rank
              /\ (i < j /\ rankings.rows[i].tweet_count = rankings.rows[j].tweet_count)
                    => rankings.result[rankings.rows[i].country].rank
                         < rankings.result[rankings.rows[j].country].rank

\* C30 witness: three rows, the first two with equal tweet_count and Uganda
\* before Kenya, are ranked Uganda 1, Kenya 2 and the third 3.
C30_Witness ==
    /\ rankings.called
    /\ Len(rankings.rows) = 3
    /\ rankings.rows[1].country = "Uganda" /\ rankings.rows[2].country = "Kenya"
    /\ rankings.rows[1].tweet_count = rankings.rows[2].tweet_count
    /\ rankings.rows[2].tweet_count > rankings.rows[3].tweet_count
    /\ rankings.result["Uganda"].rank = 1
    /\ rankings.result["Kenya"].rank = 2
    /\ rankings.result["Tanzania"].rank = 3

====
